---- MODULE Spec2Model ----
(***************************************************************************)
(* Model of the profanity lint tool (package main): the directory walk of  *)
(* main, the resolution cache getRules, the resolver discoverRules, the    *)
(* rule-file loader localRules / deserializeRules, the glob filter         *)
(* globAnyMatch and Rule.ShouldInclude / ShouldExclude / Apply; and of     *)
(* sh.ArgsTrailer and web.Healthz. Spec is a run of main, SpecGlob a call  *)
(* of globAnyMatch, SpecArgs a call of sh.ArgsTrailer and SpecHealthz a    *)
(* Healthz serving requests while the app logs HTTP response events.       *)
(*                                                                         *)
(* Go strings are modelled as sequences of one-character strings, so that  *)
(* strings.HasPrefix, strings.Contains, filepath.Dir, filepath.Base and    *)
(* filepath.Match are computed character by character.                     *)
(***************************************************************************)
EXTENDS Integers, Sequences, FiniteSets, TLC

\* ---------------------------------------------------------------------------
\* Bounds of the model
\* ---------------------------------------------------------------------------

\* at most this many directories of the tree hold a rule-definition file
MaxRuleFiles == 2

\* a filter handed to globAnyMatch on its own holds at most this many patterns
MaxParts == 2

\* sh.ArgsTrailer is called with at most this many arguments
MaxArgs == 3

\* at most this many calls of Healthz.ServeHTTP run
MaxRequests == 2

\* at most this many HTTP response events are logged on the app logger
MaxEvents == 2

\* ---------------------------------------------------------------------------
\* Strings
\* ---------------------------------------------------------------------------

\* the empty string
Empty == << >>

\* the root of the walk, "."
Dot == <<".">>

\* the path separator
Sep == "/"

\* DefaultProfanityFile = "PROFANITY"
DefaultProfanityFile == <<"P","R","O","F","A","N","I","T","Y">>

\* the -rules flag; the model runs the tool with the flag's default value
rulesFile == DefaultProfanityFile

\* byte value of the characters used in the file names of the model
Ord(c) ==
    CASE c = "." -> 46
      [] c = "/" -> 47
      [] c = "P" -> 80
      [] c = "_" -> 95
      [] c = "a" -> 97
      [] c = "b" -> 98
      [] c = "c" -> 99
      [] c = "d" -> 100
      [] c = "e" -> 101
      [] c = "g" -> 103
      [] c = "h" -> 104
      [] c = "i" -> 105
      [] c = "m" -> 109
      [] c = "n" -> 110
      [] c = "o" -> 111
      [] c = "x" -> 120
      [] OTHER  -> 65

\* s[from..], the Go slice s[from-1:]
Drop(s, n) == SubSeq(s, n + 1, Len(s))

\* s[..n], the Go slice s[:n]
Take(s, n) == SubSeq(s, 1, n)

\* strings.HasPrefix(s, prefix)
HasPrefix(s, prefix) ==
    /\ Len(prefix) <= Len(s)
    /\ Take(s, Len(prefix)) = prefix

\* strings.HasSuffix(s, suffix)
HasSuffix(s, suffix) ==
    /\ Len(suffix) <= Len(s)
    /\ Drop(s, Len(s) - Len(suffix)) = suffix

\* strings.Contains(s, substr)
StrContains(s, substr) ==
    \E i \in 0..(Len(s) - Len(substr)) : SubSeq(s, i + 1, i + Len(substr)) = substr

\* strings.TrimSpace(s)
RECURSIVE TrimSpace(_)
TrimSpace(s) ==
    IF s = Empty THEN Empty
    ELSE IF Head(s) = " " THEN TrimSpace(Tail(s))
    ELSE IF s[Len(s)] = " " THEN TrimSpace(Take(s, Len(s) - 1))
    ELSE s

\* strings.IndexByte(s, c) counted from 1, 0 if c does not occur from i on
RECURSIVE IndexFrom(_, _, _)
IndexFrom(s, c, i) ==
    IF i > Len(s) THEN 0
    ELSE IF s[i] = c THEN i
    ELSE IndexFrom(s, c, i + 1)

\* strings.Split(s, sep) for a one-character separator
RECURSIVE Split(_, _)
Split(s, sep) ==
    LET i == IndexFrom(s, sep, 1)
    IN  IF i = 0 THEN << s >>
        ELSE << Take(s, i - 1) >> \o Split(Drop(s, i), sep)

\* strings.LastIndexByte(s, c) counted from 1, 0 if c does not occur up to i
RECURSIVE LastIndexFrom(_, _, _)
LastIndexFrom(s, c, i) ==
    IF i = 0 THEN 0
    ELSE IF s[i] = c THEN i
    ELSE LastIndexFrom(s, c, i - 1)

\* index of the last separator of a path, 0 if there is none
LastSep(p) == LastIndexFrom(p, Sep, Len(p))

\* filepath.Dir(p) for the clean relative paths the walk produces
Dir(p) ==
    LET i == LastSep(p)
    IN  IF i = 0 THEN Dot ELSE Take(p, i - 1)

\* filepath.Base(p) for the clean relative paths the walk produces
Base(p) == Drop(p, LastSep(p))

\* filepath.Join(dir, name): joining with "." cleans to the bare name
Join(dir, name) == IF dir = Dot THEN name ELSE dir \o << Sep >> \o name

\* byte-wise string order, the order of sort.Strings
RECURSIVE StrLess(_, _)
StrLess(a, b) ==
    IF b = Empty THEN FALSE
    ELSE IF a = Empty THEN TRUE
    ELSE IF Head(a) # Head(b) THEN Ord(Head(a)) < Ord(Head(b))
    ELSE StrLess(Tail(a), Tail(b))

\* ---------------------------------------------------------------------------
\* filepath.Match and the glob filter
\* ---------------------------------------------------------------------------

\* a pattern filepath.Match rejects with ErrBadPattern: the patterns of the
\* model have no closing bracket, so every "[" opens an unterminated class
BadPattern(pattern) == \E i \in 1..Len(pattern) : pattern[i] = "["

\* filepath.Match on a well-formed pattern: "*" matches any run of
\* non-separator characters, "?" one non-separator character, any other
\* character itself; the whole name must be matched
RECURSIVE GlobMatch(_, _)
GlobMatch(pattern, name) ==
    IF pattern = Empty THEN name = Empty
    ELSE IF Head(pattern) = "*"
         THEN \/ GlobMatch(Tail(pattern), name)
              \/ /\ name # Empty
                 /\ Head(name) # Sep
                 /\ GlobMatch(pattern, Tail(name))
    ELSE IF name = Empty THEN FALSE
    ELSE IF Head(pattern) = "?"
         THEN Head(name) # Sep /\ GlobMatch(Tail(pattern), Tail(name))
    ELSE Head(pattern) = Head(name) /\ GlobMatch(Tail(pattern), Tail(name))

\* filepath.Match(pattern, name): the pair (matched, err)
Match(pattern, name) ==
    IF BadPattern(pattern) THEN [matches |-> FALSE, err |-> TRUE]
    ELSE [matches |-> GlobMatch(pattern, name), err |-> FALSE]

\* a loop of globAnyMatch that takes a malformed pattern as one that does not
\* match
RECURSIVE globAnyPartsSkipsBad(_, _)
globAnyPartsSkipsBad(parts, file) ==
    IF parts = << >> THEN [matches |-> FALSE, err |-> FALSE]
    ELSE LET part == TrimSpace(Head(parts))
             full == Match(part, file)
             base == Match(part, Base(file))
         IN  IF full.matches THEN [matches |-> TRUE, err |-> FALSE]
             ELSE IF base.matches THEN [matches |-> TRUE, err |-> FALSE]
             ELSE globAnyPartsSkipsBad(Tail(parts), file)

\* a loop of globAnyMatch that does not trim the parts of the filter
RECURSIVE globAnyPartsUntrimmed(_, _)
globAnyPartsUntrimmed(parts, file) ==
    IF parts = << >> THEN [matches |-> FALSE, err |-> FALSE]
    ELSE LET part == Head(parts)
             full == Match(part, file)
             base == Match(part, Base(file))
         IN  IF full.err THEN [matches |-> FALSE, err |-> TRUE]
             ELSE IF full.matches THEN [matches |-> TRUE, err |-> FALSE]
             ELSE IF base.err THEN [matches |-> FALSE, err |-> TRUE]
             ELSE IF base.matches THEN [matches |-> TRUE, err |-> FALSE]
             ELSE globAnyPartsUntrimmed(Tail(parts), file)

\* the loop of globAnyMatch over the parts of the filter
RECURSIVE globAnyParts(_, _)
globAnyParts(parts, file) ==
    IF parts = << >> THEN [matches |-> FALSE, err |-> FALSE]
    ELSE LET part == TrimSpace(Head(parts))
             full == Match(part, file)
             base == Match(part, Base(file))
         IN  IF full.err THEN [matches |-> FALSE, err |-> TRUE]
             ELSE IF full.matches THEN [matches |-> TRUE, err |-> FALSE]
             ELSE IF base.err THEN [matches |-> FALSE, err |-> TRUE]
             ELSE IF base.matches THEN [matches |-> TRUE, err |-> FALSE]
             ELSE globAnyParts(Tail(parts), file)

\* globAnyMatch(filter, file)
globAnyMatch(filter, file) == globAnyParts(Split(filter, ","), file)

\* ---------------------------------------------------------------------------
\* Rules
\* ---------------------------------------------------------------------------

\* a Rule as the rule file declares it; File is stamped by deserializeRules
Rule(message, contains, notContains, regex, include, exclude) ==
    [File |-> Empty, Message |-> message, Contains |-> contains,
     NotContains |-> notContains, Regex |-> regex,
     Include |-> include, Exclude |-> exclude]

\* an expression regexp.MustCompile rejects: the expressions of the model
\* have no closing parenthesis, so every "(" opens an unterminated group
BadRegex(expr) == \E i \in 1..Len(expr) : expr[i] = "("

\* the expression matches a prefix of s: "." is any character, any other
\* character is itself
RECURSIVE RegexMatchHere(_, _)
RegexMatchHere(expr, s) ==
    IF expr = Empty THEN TRUE
    ELSE IF s = Empty THEN FALSE
    ELSE /\ (Head(expr) = "." \/ Head(expr) = Head(s))
         /\ RegexMatchHere(Tail(expr), Tail(s))

\* regex.Match(contents): the expression matches somewhere in the contents,
\* or at its start when the expression begins with "^"
RegexMatch(expr, contents) ==
    IF expr # Empty /\ Head(expr) = "^"
    THEN RegexMatchHere(Tail(expr), contents)
    ELSE \E i \in 0..Len(contents) : RegexMatchHere(expr, Drop(contents, i))

\* Contains(value)(contents): the error returned, "nil" for none
Contains(value, contents) ==
    IF StrContains(contents, value) THEN "contains" ELSE "nil"

\* NotContains(value)(contents)
NotContains(value, contents) ==
    IF ~StrContains(contents, value) THEN "not contains" ELSE "nil"

\* Regex(expr)(contents); MustCompile panics on a malformed expression
Regex(expr, contents) ==
    IF BadRegex(expr) THEN "panic"
    ELSE IF RegexMatch(expr, contents) THEN "regexp match" ELSE "nil"

\* Rule.ShouldInclude(file)
ShouldInclude(r, file) ==
    IF Len(r.Include) = 0 THEN [matches |-> TRUE, err |-> FALSE]
    ELSE globAnyMatch(r.Include, file)

\* a ShouldExclude that excludes every file when the filter is unset
ShouldExcludeUnset(r, file) ==
    IF Len(r.Exclude) = 0 THEN [matches |-> TRUE, err |-> FALSE]
    ELSE globAnyMatch(r.Exclude, file)

\* Rule.ShouldExclude(file)
ShouldExclude(r, file) ==
    IF Len(r.Exclude) = 0 THEN [matches |-> FALSE, err |-> FALSE]
    ELSE globAnyMatch(r.Exclude, file)

\* an Apply that tries the regex first
ApplyRegexFirst(r, contents) ==
    IF Len(r.Regex) > 0 THEN Regex(r.Regex, contents)
    ELSE IF Len(r.Contains) > 0 THEN Contains(r.Contains, contents)
    ELSE IF Len(r.NotContains) > 0 THEN NotContains(r.NotContains, contents)
    ELSE "no rule set"

\* an Apply that passes a rule with no check field
ApplyUnsetPasses(r, contents) ==
    IF Len(r.Contains) > 0 THEN Contains(r.Contains, contents)
    ELSE IF Len(r.NotContains) > 0 THEN NotContains(r.NotContains, contents)
    ELSE IF Len(r.Regex) > 0 THEN Regex(r.Regex, contents)
    ELSE "nil"

\* Rule.Apply(contents)
Apply(r, contents) ==
    IF Len(r.Contains) > 0 THEN Contains(r.Contains, contents)
    ELSE IF Len(r.NotContains) > 0 THEN NotContains(r.NotContains, contents)
    ELSE IF Len(r.Regex) > 0 THEN Regex(r.Regex, contents)
    ELSE "no rule set"

\* one iteration of the rule loop of main for rule number i: what the
\* iteration called and how it ended
\*   step: "skip"      continue, the rule is filtered out
\*         "pass"      Apply returned nil
\*         "violation" Apply returned an error, the walk function returns it
\*         "error"     a filter returned an error, the walk function returns it
\*         "panic"     Apply panicked
RuleStep(i, r, file, contents) ==
    LET inc == ShouldInclude(r, file)
        exc == ShouldExclude(r, file)
        res == Apply(r, contents)
        Ev(step, excluded, applied, err) ==
            [index |-> i, step |-> step, included |-> TRUE,
             excluded |-> excluded, applied |-> applied, err |-> err]
    IN  IF inc.err THEN Ev("error", FALSE, FALSE, "bad pattern")
        ELSE IF ~inc.matches THEN Ev("skip", FALSE, FALSE, "nil")
        ELSE IF exc.err THEN Ev("error", TRUE, FALSE, "bad pattern")
        ELSE IF exc.matches THEN Ev("skip", TRUE, FALSE, "nil")
        ELSE IF res = "nil" THEN Ev("pass", TRUE, TRUE, "nil")
        ELSE IF res = "panic" THEN Ev("panic", TRUE, TRUE, "panic")
        ELSE Ev("violation", TRUE, TRUE, res)

\* a rule loop that goes on after a violation
RECURSIVE RuleLoopGoesOn(_, _, _, _)
RuleLoopGoesOn(rules, i, file, contents) ==
    IF i > Len(rules) THEN << >>
    ELSE LET ev == RuleStep(i, rules[i], file, contents)
         IN  IF ev.step \in {"skip", "pass", "violation"}
             THEN << ev >> \o RuleLoopGoesOn(rules, i + 1, file, contents)
             ELSE << ev >>

\* the rule loop of main from rule number i on: the iterations it runs, in
\* order; the loop ends with the first iteration that does not continue
RECURSIVE RuleLoop(_, _, _, _)
RuleLoop(rules, i, file, contents) ==
    IF i > Len(rules) THEN << >>
    ELSE LET ev == RuleStep(i, rules[i], file, contents)
         IN  IF ev.step \in {"skip", "pass"}
             THEN << ev >> \o RuleLoop(rules, i + 1, file, contents)
             ELSE << ev >>

\* ---------------------------------------------------------------------------
\* The tree the tool is run on
\* ---------------------------------------------------------------------------

\* the directories whose files the walk visits: ".", "d", "de" (a sibling of
\* "d" whose name extends it), "de/e" and ".h" (a directory whose name begins
\* with the root's name)
Dirs ==
    { Dot, <<"d">>, <<"d","e">>, <<"d","e","/","e">>, <<".","h">> }

\* the directories of the tree that can hold a rule-definition file
RuleDirs ==
    { Dot, <<"d">>, <<"d","e">>, <<"d","e","/","e">> }

\* the files the tree can hold besides rule-definition files
OrdinaryFiles ==
    { <<".","a">>,
      <<".","h","/","c",".","g","o">>,
      <<"_","b","i","n","/","c",".","g","o">>,
      <<"d","/","c",".","g","o">>,
      <<"d","/","x",".","m","d">>,
      <<"d","e","/","c",".","g","o">>,
      <<"d","e","/","e","/","c",".","g","o">> }

\* the rule-definition file of each directory that can hold one
RuleFilePaths == { Join(d, rulesFile) : d \in RuleDirs }

\* every file the walk can come across
Files == OrdinaryFiles \cup RuleFilePaths

\* the contents an ordinary file can have
Contents == { <<"T">>, <<"L">>, <<"L","T">> }

\* {contains: "T", message: "no T"}
ruleNoT == Rule("no T", <<"T">>, Empty, Empty, Empty, Empty)

\* {notContains: "L", include: "*.go", message: "license"}
ruleLicense == Rule("license", Empty, <<"L">>, Empty, <<"*",".","g","o">>, Empty)

\* {regex: "L.", exclude: "d/*", message: "no L."}
ruleRegex == Rule("no L.", Empty, Empty, <<"L",".">>, Empty, <<"d","/","*">>)

\* {contains: "T", regex: "L", message: "both"}: two check fields populated
ruleBoth == Rule("both", <<"T">>, Empty, <<"L">>, Empty, Empty)

\* {exclude: ".a", message: "unset"}: no check field populated
ruleUnset == Rule("unset", Empty, Empty, Empty, Empty, <<".","a">>)

\* {contains: "T", include: "*.go, [", message: "bad glob"}
ruleBadGlob ==
    Rule("bad glob", <<"T">>, Empty, Empty, <<"*",".","g","o",","," ","[">>, Empty)

\* {regex: "(", exclude: "d/*", message: "bad regex"}
ruleBadRegex == Rule("bad regex", Empty, Empty, <<"(">>, Empty, <<"d","/","*">>)

\* {contains: "T", exclude: "[", message: "bad exclude"}
ruleBadExclude == Rule("bad exclude", <<"T">>, Empty, Empty, Empty, <<"[">>)

\* the rule sequences a well-formed rule-definition file of the model declares
RuleFileRules ==
    { << ruleLicense, ruleRegex, ruleNoT >>,
      << ruleBoth, ruleUnset >>,
      << ruleBadGlob, ruleBadRegex, ruleBadExclude >> }

\* what a directory holds as its rule-definition file: none, one that cannot
\* be read or parsed, or one that declares a rule sequence
NoRuleFile == [exists |-> FALSE, ok |-> FALSE, rules |-> << >>]

BadRuleFile == [exists |-> TRUE, ok |-> FALSE, rules |-> << >>]

GoodRuleFile(rules) == [exists |-> TRUE, ok |-> TRUE, rules |-> rules]

RuleFileStates ==
    { NoRuleFile, BadRuleFile } \cup { GoodRuleFile(rs) : rs \in RuleFileRules }

\* the values of the -include and -exclude flags the tool is run with: the
\* defaults, and -include "*.go, [" -exclude "d/*"
FlagSettings ==
    { [include |-> Empty, exclude |-> Empty],
      [include |-> <<"*",".","g","o",","," ","[">>, exclude |-> <<"d","/","*">>] }

\* ---------------------------------------------------------------------------
\* State
\* ---------------------------------------------------------------------------

VARIABLES
    ruleFiles,      \* the tree: directory -> its rule-definition file
    flags,          \* the -include and -exclude flags
    cursor,         \* the path filepath.Walk passed last to the walk function
    realizedRules,  \* main's realizedRules: directory -> effective rules
    packageRules,   \* main's packageRules: directory -> rules of its rule file
    status,         \* "walking", "ok" (exit 0), "failed" (exit 1), "panic"
    report,         \* the errors main printed to stderr, in order
    discoverCalls,  \* directory -> number of runs of discoverRules
    localCalls,     \* directory -> number of runs of localRules
    localResult,    \* directory -> what localRules returned last
    returned,       \* directory -> the rule sequences getRules has returned
    passed,         \* the files the walk function evaluated without error
    lastEval,       \* the last evaluation: file, contents, rules, iterations
    globCall,       \* a call of globAnyMatch: its arguments and its result
    argsCall,       \* a call of sh.ArgsTrailer: its arguments and its result
    hzVars,         \* Healthz.vars: name -> value
    varsLock,       \* Healthz.varsLock: "free" or the goroutine that holds it
    appLog,         \* hz.app.log is set
    listens,        \* event flag -> number of Listen calls made on hz.app.log
    serve,          \* ServeHTTP call -> its position
    calls,          \* the calls of httpResponseListener, in the order made
    startedSets     \* number of assignments to hz.vars[VarzStarted]

\* the state of a run of main
scanVars ==
    << ruleFiles, flags, cursor, realizedRules, packageRules, status, report,
       discoverCalls, localCalls, localResult, returned, passed, lastEval >>

\* the state of the calls of the functions taken on their own
callVars == << globCall, argsCall >>

\* the state of a Healthz and of the goroutines that use it
healthzVars ==
    << hzVars, varsLock, appLog, listens, serve, calls, startedSets >>

vars == << scanVars, callVars, healthzVars >>

\* the function with an empty domain, Go's empty map
EmptyMap == [d \in {} |-> << >>]

\* the map m with m[k] = v, Go's m[k] = v
MapSet(m, k, v) == [x \in (DOMAIN m) \cup {k} |-> IF x = k THEN v ELSE m[x]]

\* no evaluation has run
NoEval == [file |-> Empty, contents |-> Empty, rules |-> << >>, log |-> << >>]

\* localRules has not run for the directory
NotRun == [ran |-> FALSE, rules |-> << >>, err |-> FALSE]

\* no call of globAnyMatch is under way
NoGlobCall ==
    [filter |-> Empty, file |-> Empty, returned |-> FALSE,
     result |-> [matches |-> FALSE, err |-> FALSE]]

\* no call of sh.ArgsTrailer is under way
NoArgsCall ==
    [args |-> << >>, returned |-> FALSE, trailer |-> << >>, err |-> "nil"]

\* the names of the counters of hz.vars
VarzRequests == "http_requests"

VarzRequests2xx == "http_requests2xx"

VarzRequests3xx == "http_requests3xx"

VarzRequests4xx == "http_requests4xx"

VarzRequests5xx == "http_requests5xx"

VarzErrors == "errors_total"

VarzFatals == "fatals_total"

VarzStarted == "startedUTC"

\* the counters NewHealthz creates
Counters ==
    { VarzRequests, VarzRequests2xx, VarzRequests3xx, VarzRequests4xx,
      VarzRequests5xx, VarzErrors, VarzFatals }

\* the event flags ensureListeners listens for
Flags == { "HTTPResponse", "Error", "Fatal" }

\* the calls of ServeHTTP
Requests == 1..MaxRequests

\* no Healthz is in use: the state NewHealthz leaves, with no logger on the
\* app and no call of ServeHTTP ever made
NoHealthz ==
    /\ hzVars = [key \in Counters |-> 0]
    /\ varsLock = "free"
    /\ appLog = FALSE
    /\ listens = [flag \in Flags |-> 0]
    /\ serve = [r \in Requests |-> "idle"]
    /\ calls = << >>
    /\ startedSets = 0

Init ==
    /\ ruleFiles \in [Dirs -> RuleFileStates]
    /\ \A d \in Dirs \ RuleDirs : ruleFiles[d] = NoRuleFile
    /\ Cardinality({ d \in RuleDirs : ruleFiles[d].exists }) <= MaxRuleFiles
    /\ flags \in FlagSettings
    /\ cursor = Empty
    /\ realizedRules = EmptyMap
    /\ packageRules = EmptyMap
    /\ status = "walking"
    /\ report = << >>
    /\ discoverCalls = [d \in Dirs |-> 0]
    /\ localCalls = [d \in Dirs |-> 0]
    /\ localResult = [d \in Dirs |-> NotRun]
    /\ returned = [d \in Dirs |-> {}]
    /\ passed = {}
    /\ lastEval = NoEval
    /\ globCall = NoGlobCall
    /\ argsCall = NoArgsCall
    /\ NoHealthz

\* ---------------------------------------------------------------------------
\* The order of filepath.Walk
\* ---------------------------------------------------------------------------

\* lexical order of two paths given by their segments: filepath.Walk visits
\* the entries of a directory in the order of their names, and a directory
\* before its entries
RECURSIVE SegsLess(_, _)
SegsLess(a, b) ==
    IF b = << >> THEN FALSE
    ELSE IF a = << >> THEN TRUE
    ELSE IF Head(a) = Head(b) THEN SegsLess(Tail(a), Tail(b))
    ELSE StrLess(Head(a), Head(b))

\* filepath.Walk passes p to the walk function before q
WalkLess(p, q) == SegsLess(Split(p, Sep), Split(q, Sep))

\* the order of the walk over the files of the tree, computed once
WalkOrder == [pq \in Files \X Files |-> WalkLess(pq[1], pq[2])]

\* filepath.Dir of the files of the tree, computed once
FileDir == [file \in Files |-> Dir(file)]

\* the directories a path lies in, its own directory first, the root excluded
RECURSIVE DirsAbove(_)
DirsAbove(p) ==
    IF Dir(p) = Dot THEN {} ELSE { Dir(p) } \cup DirsAbove(Dir(p))

\* the walk function returns filepath.SkipDir for the directory
WalkSkipsDir(dir) ==
    \/ HasSuffix(dir, <<".","g","i","t">>)
    \/ HasSuffix(dir, <<"_","b","i","n">>)

\* the files of the tree filepath.Walk never passes to the walk function:
\* those below a directory the walk function skips, computed once
WalkSkips ==
    [file \in Files |-> \E dir \in DirsAbove(file) : WalkSkipsDir(dir)]

\* the file exists in the tree: a rule-definition file exists where the tree
\* has one, an ordinary file exists if the walk comes across it
Exists(file) ==
    file \in RuleFilePaths => ruleFiles[FileDir[file]].exists

\* the walk has not come to the file yet
Ahead(file) == IF cursor = Empty THEN TRUE ELSE WalkOrder[<< cursor, file >>]

\* the rule-definition files of the tree the walk has not come to yet
PendingRuleFiles ==
    { file \in RuleFilePaths : ruleFiles[FileDir[file]].exists /\ Ahead(file) }

\* filepath.Walk can pass the file to the walk function next: the file is
\* ahead, no directory above it is skipped, and no file known to exist lies
\* between the last file and it
WalkNext(file) ==
    /\ status = "walking"
    /\ file \in Files
    /\ Exists(file)
    /\ Ahead(file)
    /\ ~WalkSkips[file]
    /\ \A other \in PendingRuleFiles : ~WalkOrder[<< other, file >>]

\* ---------------------------------------------------------------------------
\* getRules, discoverRules, localRules, deserializeRules
\* ---------------------------------------------------------------------------

\* the loop of deserializeRules that stamps the file path on every rule
Stamp(rules, path) == [i \in 1..Len(rules) |-> [rules[i] EXCEPT !.File = path]]

\* deserializeRules(path): the rules and the error of reading and parsing
deserializeRules(path) ==
    LET file == ruleFiles[Dir(path)]
    IN  IF ~file.ok THEN [rules |-> << >>, err |-> TRUE]
        ELSE [rules |-> Stamp(file.rules, path), err |-> FALSE]

\* a localRules without the os.Stat check: it reads the rule-definition file
\* whether it exists or not
localRulesNoStat(pkg, path) ==
    LET profanityPath == Join(path, rulesFile)
        parsed == deserializeRules(profanityPath)
    IN  IF parsed.err
        THEN [rules |-> << >>, err |-> TRUE, pkg |-> pkg]
        ELSE [rules |-> parsed.rules, err |-> FALSE,
              pkg |-> MapSet(pkg, path, parsed.rules)]

\* a localRules that stores the directory's entry ahead of the error check
localRulesStoresOnError(pkg, path) ==
    LET profanityPath == Join(path, rulesFile)
        parsed == deserializeRules(profanityPath)
    IN  IF ~ruleFiles[path].exists
        THEN [rules |-> << >>, err |-> FALSE, pkg |-> pkg]
        ELSE IF parsed.err
        THEN [rules |-> << >>, err |-> TRUE,
              pkg |-> MapSet(pkg, path, parsed.rules)]
        ELSE [rules |-> parsed.rules, err |-> FALSE,
              pkg |-> MapSet(pkg, path, parsed.rules)]

\* a localRules that returns the error of os.Stat
localRulesStatError(pkg, path) ==
    LET profanityPath == Join(path, rulesFile)
        parsed == deserializeRules(profanityPath)
    IN  IF ~ruleFiles[path].exists \/ parsed.err
        THEN [rules |-> << >>, err |-> TRUE, pkg |-> pkg]
        ELSE [rules |-> parsed.rules, err |-> FALSE,
              pkg |-> MapSet(pkg, path, parsed.rules)]

\* localRules(packageRules, path): the rules and the error returned and the
\* packageRules map it leaves
localRules(pkg, path) ==
    LET profanityPath == Join(path, rulesFile)
        parsed == deserializeRules(profanityPath)
    IN  IF ~ruleFiles[path].exists
        THEN [rules |-> << >>, err |-> FALSE, pkg |-> pkg]
        ELSE IF parsed.err
        THEN [rules |-> << >>, err |-> TRUE, pkg |-> pkg]
        ELSE [rules |-> parsed.rules, err |-> FALSE,
              pkg |-> MapSet(pkg, path, parsed.rules)]

\* the orders in which a range over a map can yield the keys in ks
Orders(ks) ==
    { o \in [1..Cardinality(ks) -> ks] : \A i, j \in 1..Cardinality(ks) : o[i] = o[j] => i = j }

\* a loop that takes a key for a prefix only where it names a directory above
\* path
RECURSIVE InheritFromDirsAbove(_, _, _, _)
InheritFromDirsAbove(pkg, path, order, rules) ==
    IF order = << >> THEN rules
    ELSE LET key == Head(order)
         IN  IF HasPrefix(path, key \o << Sep >>) /\ key # path
             THEN InheritFromDirsAbove(pkg, path, Tail(order), pkg[key] \o rules)
             ELSE InheritFromDirsAbove(pkg, path, Tail(order), rules)

\* a loop that replaces the rules by the inherited ones instead of prepending
RECURSIVE InheritReplacing(_, _, _, _)
InheritReplacing(pkg, path, order, rules) ==
    IF order = << >> THEN rules
    ELSE LET key == Head(order)
         IN  IF HasPrefix(path, key) /\ key # path
             THEN InheritReplacing(pkg, path, Tail(order), pkg[key])
             ELSE InheritReplacing(pkg, path, Tail(order), rules)

\* the range loop of discoverRules run over the keys in the order given:
\* each key that is a prefix of path and is not path prepends its rules
RECURSIVE Inherit(_, _, _, _)
Inherit(pkg, path, order, rules) ==
    IF order = << >> THEN rules
    ELSE LET key == Head(order)
         IN  IF HasPrefix(path, key) /\ key # path
             THEN Inherit(pkg, path, Tail(order), pkg[key] \o rules)
             ELSE Inherit(pkg, path, Tail(order), rules)

\* a discoverRules that puts the root rules behind the others
WithRootLast(pkg, path, rules) ==
    IF Dot \in DOMAIN pkg /\ path # Dot THEN rules \o pkg[Dot] ELSE rules

\* the root rules discoverRules prepends at its end
WithRoot(pkg, path, rules) ==
    IF Dot \in DOMAIN pkg /\ path # Dot THEN pkg[Dot] \o rules ELSE rules

\* a discoverRules that stores the merged sequence back under the key it
\* inherited from
discoverRulesStoresMerged(pkg, path) ==
    LET local == localRules(pkg, path)
    IN  IF local.err
        THEN { [rules |-> << >>, err |-> TRUE, pkg |-> local.pkg, local |-> local] }
        ELSE { [rules |-> WithRoot(local.pkg, path,
                              Inherit(local.pkg, path, order, local.rules)),
                err |-> FALSE,
                pkg |-> [key \in DOMAIN local.pkg |->
                            IF HasPrefix(path, key) /\ key # path
                            THEN local.pkg[key] \o local.rules
                            ELSE local.pkg[key]],
                local |-> local] :
               order \in Orders(DOMAIN local.pkg) }

\* discoverRules(packageRules, path): every result the call can have, one for
\* each order in which the range over packageRules can yield its keys
discoverRules(pkg, path) ==
    LET local == localRules(pkg, path)
    IN  IF local.err
        THEN { [rules |-> << >>, err |-> TRUE, pkg |-> local.pkg, local |-> local] }
        ELSE { [rules |-> WithRoot(local.pkg, path,
                              Inherit(local.pkg, path, order, local.rules)),
                err |-> FALSE, pkg |-> local.pkg, local |-> local] :
               order \in Orders(DOMAIN local.pkg) }

\* a getRules that does not look the directory up in realizedRules
getRulesUncached(realized, pkg, path) ==
    { [rules |-> found.rules, err |-> found.err,
       realized |-> IF found.err THEN realized
                    ELSE MapSet(realized, path, found.rules),
       pkg |-> found.pkg, discovered |-> TRUE,
       local |-> [ran |-> TRUE, rules |-> found.local.rules,
                  err |-> found.local.err]] :
      found \in discoverRules(pkg, path) }

\* getRules(realizedRules, packageRules, path): every result the call can
\* have, with the maps it leaves and whether it ran discoverRules
getRules(realized, pkg, path) ==
    IF path \in DOMAIN realized
    THEN { [rules |-> realized[path], err |-> FALSE, realized |-> realized,
            pkg |-> pkg, discovered |-> FALSE, local |-> NotRun] }
    ELSE { [rules |-> found.rules, err |-> found.err,
            realized |-> IF found.err THEN realized
                         ELSE MapSet(realized, path, found.rules),
            pkg |-> found.pkg, discovered |-> TRUE,
            local |-> [ran |-> TRUE, rules |-> found.local.rules,
                       err |-> found.local.err]] :
           found \in discoverRules(pkg, path) }

\* ---------------------------------------------------------------------------
\* The walk function of main
\* ---------------------------------------------------------------------------

\* the checks of the walk function ahead of getRules: the -include flag, the
\* -exclude flag and the name of the rule-definition file
FilterFile(include, exclude, file) ==
    LET inc == globAnyMatch(include, file)
        exc == globAnyMatch(exclude, file)
        own == Match(DefaultProfanityFile, Base(file))
    IN  IF Len(include) > 0 /\ inc.err THEN "error"
        ELSE IF Len(include) > 0 /\ ~inc.matches THEN "skip"
        ELSE IF Len(exclude) > 0 /\ exc.err THEN "error"
        ELSE IF Len(exclude) > 0 /\ exc.matches THEN "skip"
        ELSE IF own.err THEN "error"
        ELSE IF own.matches THEN "skip"
        ELSE "evaluate"

\* FilterFile for every flag setting and file of the model, computed once
FilterTable ==
    [sf \in FlagSettings \X Files |->
        FilterFile(sf[1].include, sf[1].exclude, sf[2])]

\* the outcome of the checks for the flags the tool runs with
GlobalFilter(file) == FilterTable[<< flags, file >>]

\* an error main prints before os.Exit(1)
Failure(kind, file, rule, err) ==
    [kind |-> kind, file |-> file, rule |-> rule, err |-> err]

\* the rule of a failure that is not a rule violation
NoRule == Rule("", Empty, Empty, Empty, Empty, Empty)

\* a walk that goes on after the walk function returned an error
FailGoesOn(failure) ==
    /\ status' = status
    /\ report' = Append(report, failure)

\* the walk function returns err: filepath.Walk stops and returns it, main
\* prints it and exits with status 1
Fail(failure) ==
    /\ status' = "failed"
    /\ report' = Append(report, failure)

\* what a call of getRules for dir leaves in the maps and the call counts
Resolved(dir, out) ==
    /\ realizedRules' = out.realized
    /\ packageRules' = out.pkg
    /\ discoverCalls' = IF out.discovered
                        THEN [discoverCalls EXCEPT ![dir] = @ + 1]
                        ELSE discoverCalls
    /\ localCalls' = IF out.discovered
                     THEN [localCalls EXCEPT ![dir] = @ + 1]
                     ELSE localCalls
    /\ localResult' = IF out.discovered
                      THEN [localResult EXCEPT ![dir] = out.local]
                      ELSE localResult
    /\ returned' = IF out.err THEN returned
                   ELSE [returned EXCEPT ![dir] = @ \cup { out.rules }]

\* the walk function returns nil ahead of getRules: the file is filtered out
\* by a flag or is a rule-definition file
WalkSkip(file) ==
    /\ WalkNext(file)
    /\ GlobalFilter(file) = "skip"
    /\ cursor' = file
    /\ UNCHANGED << ruleFiles, flags, realizedRules, packageRules, status,
                    report, discoverCalls, localCalls, localResult, returned,
                    passed, lastEval >>
    /\ UNCHANGED << callVars, healthzVars >>

\* a flag holds a malformed pattern: the walk function returns the error
WalkFilterError(file) ==
    /\ WalkNext(file)
    /\ GlobalFilter(file) = "error"
    /\ cursor' = file
    /\ Fail(Failure("error", file, NoRule, "bad pattern"))
    /\ UNCHANGED << ruleFiles, flags, realizedRules, packageRules,
                    discoverCalls, localCalls, localResult, returned,
                    passed, lastEval >>
    /\ UNCHANGED << callVars, healthzVars >>

\* getRules returns an error: the walk function returns it
WalkRulesError(file) ==
    /\ WalkNext(file)
    /\ GlobalFilter(file) = "evaluate"
    /\ \E out \in getRules(realizedRules, packageRules, FileDir[file]) :
          /\ out.err
          /\ Resolved(FileDir[file], out)
    /\ cursor' = file
    /\ Fail(Failure("error", file, NoRule, "rule file"))
    /\ UNCHANGED << ruleFiles, flags, passed, lastEval >>
    /\ UNCHANGED << callVars, healthzVars >>

\* ioutil.ReadFile fails for the file, after getRules has returned
WalkReadError(file) ==
    /\ WalkNext(file)
    /\ GlobalFilter(file) = "evaluate"
    /\ \E out \in getRules(realizedRules, packageRules, FileDir[file]) :
          /\ ~out.err
          /\ Resolved(FileDir[file], out)
    /\ cursor' = file
    /\ Fail(Failure("error", file, NoRule, "read"))
    /\ UNCHANGED << ruleFiles, flags, passed, lastEval >>
    /\ UNCHANGED << callVars, healthzVars >>

\* the walk function gets the rules of the file's directory, reads the file
\* and runs the rule loop over it
WalkEvaluate(file) ==
    /\ WalkNext(file)
    /\ GlobalFilter(file) = "evaluate"
    /\ cursor' = file
    /\ \E out \in getRules(realizedRules, packageRules, FileDir[file]) :
          /\ ~out.err
          /\ Resolved(FileDir[file], out)
          /\ \E contents \in Contents :
                LET log == RuleLoop(out.rules, 1, file, contents)
                    end == IF log = << >> THEN "pass" ELSE log[Len(log)].step
                    last == log[Len(log)]
                IN  /\ lastEval' = [file |-> file, contents |-> contents,
                                    rules |-> out.rules, log |-> log]
                    /\ \/ /\ end \in {"skip", "pass"}
                          /\ passed' = passed \cup { file }
                          /\ UNCHANGED << status, report >>
                       \/ /\ end = "violation"
                          /\ Fail(Failure("violation", file,
                                          out.rules[last.index], last.err))
                          /\ UNCHANGED passed
                       \/ /\ end = "error"
                          /\ Fail(Failure("error", file,
                                          out.rules[last.index], last.err))
                          /\ UNCHANGED passed
                       \/ /\ end = "panic"
                          /\ status' = "panic"
                          /\ UNCHANGED << report, passed >>
    /\ UNCHANGED << ruleFiles, flags >>
    /\ UNCHANGED << callVars, healthzVars >>

\* filepath.Walk has passed every file of the tree and returns nil: main
\* exits with status 0
WalkDone ==
    /\ status = "walking"
    /\ PendingRuleFiles = {}
    /\ status' = "ok"
    /\ UNCHANGED << ruleFiles, flags, cursor, realizedRules, packageRules,
                    report, discoverCalls, localCalls, localResult, returned,
                    passed, lastEval >>
    /\ UNCHANGED << callVars, healthzVars >>

Next ==
    \/ \E file \in Files : WalkSkip(file)
    \/ \E file \in Files : WalkFilterError(file)
    \/ \E file \in Files : WalkRulesError(file)
    \/ \E file \in Files : WalkReadError(file)
    \/ \E file \in Files : WalkEvaluate(file)
    \/ WalkDone

Spec == Init /\ [][Next]_vars

\* ---------------------------------------------------------------------------
\* globAnyMatch called on its own
\* ---------------------------------------------------------------------------

\* the patterns a filter of the model is made of: "*.go", "c.go", " *.md "
\* (with blanks around it), "d/*", the malformed "[" and the empty pattern
FilterParts ==
    { <<"*",".","g","o">>, <<"c",".","g","o">>, <<" ","*",".","m","d"," ">>,
      <<"d","/","*">>, <<"[">>, Empty }

\* the parts joined by commas
RECURSIVE JoinComma(_)
JoinComma(parts) ==
    IF Len(parts) = 1 THEN Head(parts)
    ELSE Head(parts) \o <<",">> \o JoinComma(Tail(parts))

\* the filters globAnyMatch is called with: up to MaxParts patterns
GlobFilters ==
    { JoinComma(parts) :
        parts \in UNION { [1..n -> FilterParts] : n \in 1..MaxParts } }

\* the file paths globAnyMatch is called with
GlobFiles ==
    { <<"c",".","g","o">>, <<"d","/","c",".","g","o">>,
      <<"d","/","x",".","m","d">>, <<".","a">> }

\* no scan runs: the state of main as it is before the walk, in a tree
\* without rule-definition files
NoScan ==
    /\ ruleFiles = [d \in Dirs |-> NoRuleFile]
    /\ flags = [include |-> Empty, exclude |-> Empty]
    /\ cursor = Empty
    /\ realizedRules = EmptyMap
    /\ packageRules = EmptyMap
    /\ status = "walking"
    /\ report = << >>
    /\ discoverCalls = [d \in Dirs |-> 0]
    /\ localCalls = [d \in Dirs |-> 0]
    /\ localResult = [d \in Dirs |-> NotRun]
    /\ returned = [d \in Dirs |-> {}]
    /\ passed = {}
    /\ lastEval = NoEval

\* globAnyMatch is called with a filter and a file path
InitGlob ==
    /\ NoScan
    /\ argsCall = NoArgsCall
    /\ NoHealthz
    /\ \E filter \in GlobFilters, file \in GlobFiles :
          globCall = [NoGlobCall EXCEPT !.filter = filter, !.file = file]

\* globAnyMatch returns
GlobReturn ==
    /\ ~globCall.returned
    /\ globCall' = [globCall EXCEPT
                       !.returned = TRUE,
                       !.result = globAnyMatch(globCall.filter, globCall.file)]
    /\ UNCHANGED << scanVars, argsCall, healthzVars >>

NextGlob == GlobReturn

SpecGlob == InitGlob /\ [][NextGlob]_vars

\* ---------------------------------------------------------------------------
\* sh.ArgsTrailer called on its own
\* ---------------------------------------------------------------------------

\* the arguments of the model: the token "--", the token with blanks around
\* it, the flag "-a" and the word "b"
ArgTokens ==
    { <<"-","-">>, <<" ","-","-"," ">>, <<"-","a">>, <<"b">> }

\* the argument lists ArgsTrailer is called with: up to MaxArgs arguments
ArgLists == UNION { [1..n -> ArgTokens] : n \in 0..MaxArgs }

\* ErrFlagsNoTrailer
ErrFlagsNoTrailer == "sh; error parsing args trailer"

\* the loop of ArgsTrailer from index on (indices counted from 0, as in the
\* Go code): the index of the first argument that is "--" when trimmed; the
\* zero value foundIndex is declared with if there is none
RECURSIVE FoundIndex(_, _)
FoundIndex(args, index) ==
    IF index >= Len(args) THEN 0
    ELSE IF TrimSpace(args[index + 1]) = <<"-","-">> THEN index
    ELSE FoundIndex(args, index + 1)

\* ArgsTrailer(args...): the pair (trailer, err)
ArgsTrailer(args) ==
    LET foundIndex == FoundIndex(args, 0)
    IN  IF foundIndex = 0
        THEN [trailer |-> << >>, err |-> ErrFlagsNoTrailer]
        ELSE IF foundIndex = Len(args) - 1
        THEN [trailer |-> << >>, err |-> ErrFlagsNoTrailer]
        ELSE [trailer |-> Drop(args, foundIndex + 1), err |-> "nil"]

\* ArgsTrailer is called with an argument list
InitArgs ==
    /\ NoScan
    /\ globCall = NoGlobCall
    /\ NoHealthz
    /\ \E args \in ArgLists : argsCall = [NoArgsCall EXCEPT !.args = args]

\* ArgsTrailer returns
ArgsReturn ==
    /\ ~argsCall.returned
    /\ LET out == ArgsTrailer(argsCall.args)
       IN  argsCall' = [argsCall EXCEPT !.returned = TRUE,
                                        !.trailer = out.trailer,
                                        !.err = out.err]
    /\ UNCHANGED << scanVars, globCall, healthzVars >>

NextArgs == ArgsReturn

SpecArgs == InitArgs /\ [][NextArgs]_vars

\* ---------------------------------------------------------------------------
\* web.Healthz: ensureListeners and httpResponseListener
\* ---------------------------------------------------------------------------

\* http.StatusMultipleChoices
StatusMultipleChoices == 300

\* http.StatusBadRequest
StatusBadRequest == 400

\* http.StatusInternalServerError
StatusInternalServerError == 500

\* the status codes of the HTTP response events of the model
StatusCodes == { 200, 300, 399, 400, 499, 500 }

\* a counter of the status code's class with the bounds of the classes
\* excluded
StatusCounterAbove(statusCode) ==
    IF statusCode > StatusInternalServerError THEN VarzRequests5xx
    ELSE IF statusCode > StatusBadRequest THEN VarzRequests4xx
    ELSE IF statusCode > StatusMultipleChoices THEN VarzRequests3xx
    ELSE VarzRequests2xx

\* the branches of httpResponseListener: the counter of the status code's
\* class
StatusCounter(statusCode) ==
    IF statusCode >= StatusInternalServerError THEN VarzRequests5xx
    ELSE IF statusCode >= StatusBadRequest THEN VarzRequests4xx
    ELSE IF statusCode >= StatusMultipleChoices THEN VarzRequests3xx
    ELSE VarzRequests2xx

\* incrementVarUnsafe(key): the map hz.vars it leaves
incrementVarUnsafe(hv, key) ==
    IF key \in DOMAIN hv
    THEN IF hv[key] \in Int THEN [hv EXCEPT ![key] = @ + 1] ELSE hv
    ELSE MapSet(hv, key, 1)

\* a Healthz made by NewHealthz for an app with or without a logger
InitHealthz ==
    /\ NoScan
    /\ globCall = NoGlobCall
    /\ argsCall = NoArgsCall
    /\ hzVars = [key \in Counters |-> 0]
    /\ varsLock = "free"
    /\ appLog \in BOOLEAN
    /\ listens = [flag \in Flags |-> 0]
    /\ serve = [r \in Requests |-> "idle"]
    /\ calls = << >>
    /\ startedSets = 0

\* a request comes in: ServeHTTP calls ensureListeners
ServeHTTP(r) ==
    /\ serve[r] = "idle"
    /\ serve' = [serve EXCEPT ![r] = "lock"]
    /\ UNCHANGED << hzVars, varsLock, appLog, listens, calls, startedSets >>
    /\ UNCHANGED << scanVars, callVars >>

\* ensureListeners: hz.varsLock.Lock()
ensureListenersLock(r) ==
    /\ serve[r] = "lock"
    /\ varsLock = "free"
    /\ varsLock' = << "serve", r >>
    /\ serve' = [serve EXCEPT ![r] = "check"]
    /\ UNCHANGED << hzVars, appLog, listens, calls, startedSets >>
    /\ UNCHANGED << scanVars, callVars >>

\* an ensureListeners without the early return
ensureListenersCheckNever(r) ==
    /\ serve[r] = "check"
    /\ serve' = [serve EXCEPT ![r] = "set"]
    /\ UNCHANGED << hzVars, varsLock, appLog, listens, calls, startedSets >>
    /\ UNCHANGED << scanVars, callVars >>

\* ensureListeners: it returns if hz.vars holds VarzStarted
ensureListenersCheck(r) ==
    /\ serve[r] = "check"
    /\ serve' = [serve EXCEPT ![r] =
                    IF VarzStarted \in DOMAIN hzVars THEN "unlock" ELSE "set"]
    /\ UNCHANGED << hzVars, varsLock, appLog, listens, calls, startedSets >>
    /\ UNCHANGED << scanVars, callVars >>

\* ensureListeners: hz.vars[VarzStarted] = time.Now().UTC()
ensureListenersSet(r) ==
    /\ serve[r] = "set"
    /\ hzVars' = MapSet(hzVars, VarzStarted, "time")
    /\ startedSets' = startedSets + 1
    /\ serve' = [serve EXCEPT ![r] = "listen"]
    /\ UNCHANGED << varsLock, appLog, listens, calls >>
    /\ UNCHANGED << scanVars, callVars >>

\* ensureListeners: the three calls of hz.app.log.Listen, made if the app has
\* a logger
ensureListenersListen(r) ==
    /\ serve[r] = "listen"
    /\ listens' = IF appLog THEN [flag \in Flags |-> listens[flag] + 1]
                  ELSE listens
    /\ serve' = [serve EXCEPT ![r] = "unlock"]
    /\ UNCHANGED << hzVars, varsLock, appLog, calls, startedSets >>
    /\ UNCHANGED << scanVars, callVars >>

\* ensureListeners returns: the deferred hz.varsLock.Unlock()
ensureListenersUnlock(r) ==
    /\ serve[r] = "unlock"
    /\ varsLock' = "free"
    /\ serve' = [serve EXCEPT ![r] = "served"]
    /\ UNCHANGED << hzVars, appLog, listens, calls, startedSets >>
    /\ UNCHANGED << scanVars, callVars >>

\* the events logged so far that reached httpResponseListener
Events == { calls[c].event : c \in 1..Len(calls) }

\* a call of httpResponseListener for an event, not begun yet
ListenerCall(event, statusCode) ==
    [event |-> event, statusCode |-> statusCode, pc |-> "wait"]

\* the app logger is triggered with an HTTP response event: the listener
\* registered for logger.HTTPResponse is called with it, once for every
\* registration the logger keeps (it keeps one at least, and as many as
\* Listen was called at most)
AppLogs(statusCode) ==
    /\ appLog
    /\ listens["HTTPResponse"] >= 1
    /\ Cardinality(Events) < MaxEvents
    /\ \E n \in 1..listens["HTTPResponse"] :
          calls' = calls \o [i \in 1..n |->
                                ListenerCall(Cardinality(Events) + 1, statusCode)]
    /\ UNCHANGED << hzVars, varsLock, appLog, listens, serve, startedSets >>
    /\ UNCHANGED << scanVars, callVars >>

\* httpResponseListener: hz.varsLock.Lock()
httpResponseListenerLock(c) ==
    /\ calls[c].pc = "wait"
    /\ varsLock = "free"
    /\ varsLock' = << "call", c >>
    /\ calls' = [calls EXCEPT ![c].pc = "requests"]
    /\ UNCHANGED << hzVars, appLog, listens, serve, startedSets >>
    /\ UNCHANGED << scanVars, callVars >>

\* httpResponseListener: hz.incrementVarUnsafe(VarzRequests)
httpResponseListenerRequests(c) ==
    /\ calls[c].pc = "requests"
    /\ hzVars' = incrementVarUnsafe(hzVars, VarzRequests)
    /\ calls' = [calls EXCEPT ![c].pc = "class"]
    /\ UNCHANGED << varsLock, appLog, listens, serve, startedSets >>
    /\ UNCHANGED << scanVars, callVars >>

\* httpResponseListener: the counter of the status code's class is
\* incremented
httpResponseListenerClass(c) ==
    /\ calls[c].pc = "class"
    /\ hzVars' = incrementVarUnsafe(hzVars, StatusCounter(calls[c].statusCode))
    /\ calls' = [calls EXCEPT ![c].pc = "unlock"]
    /\ UNCHANGED << varsLock, appLog, listens, serve, startedSets >>
    /\ UNCHANGED << scanVars, callVars >>

\* httpResponseListener returns: the deferred hz.varsLock.Unlock()
httpResponseListenerUnlock(c) ==
    /\ calls[c].pc = "unlock"
    /\ varsLock' = "free"
    /\ calls' = [calls EXCEPT ![c].pc = "done"]
    /\ UNCHANGED << hzVars, appLog, listens, serve, startedSets >>
    /\ UNCHANGED << scanVars, callVars >>

NextHealthz ==
    \/ \E r \in Requests : ServeHTTP(r)
    \/ \E r \in Requests : ensureListenersLock(r)
    \/ \E r \in Requests : ensureListenersCheck(r)
    \/ \E r \in Requests : ensureListenersSet(r)
    \/ \E r \in Requests : ensureListenersListen(r)
    \/ \E r \in Requests : ensureListenersUnlock(r)
    \/ \E statusCode \in StatusCodes : AppLogs(statusCode)
    \/ \E c \in 1..Len(calls) : httpResponseListenerLock(c)
    \/ \E c \in 1..Len(calls) : httpResponseListenerRequests(c)
    \/ \E c \in 1..Len(calls) : httpResponseListenerClass(c)
    \/ \E c \in 1..Len(calls) : httpResponseListenerUnlock(c)

SpecHealthz == InitHealthz /\ [][NextHealthz]_vars

\* ---------------------------------------------------------------------------
\* Properties
\* ---------------------------------------------------------------------------

\* the rules the rule-definition file of dir declares, as deserializeRules
\* returns them
RulesOf(dir) == Stamp(ruleFiles[dir].rules, Join(dir, rulesFile))

\* every rule of the sequence part occurs in the sequence whole
ContainsAll(whole, part) ==
    \A i \in 1..Len(part) : \E j \in 1..Len(whole) : whole[j] = part[i]

\* the sequence part occurs in the sequence whole in order, from position
\* from of whole on
RECURSIVE OccursInOrder(_, _, _)
OccursInOrder(whole, part, from) ==
    IF part = << >> THEN TRUE
    ELSE IF from > Len(whole) THEN FALSE
    ELSE IF whole[from] = Head(part)
         THEN OccursInOrder(whole, Tail(part), from + 1)
         ELSE OccursInOrder(whole, part, from + 1)

\* the directories on the path from the root down to dir, dir excluded
AncestorDirs(dir) ==
    IF dir = Dot THEN {} ELSE { Dot } \cup DirsAbove(dir)

\* C1: when the root holds a rule-definition file, the effective rules of
\* every resolved non-root directory without a rule-definition file of its
\* own contain every rule of the root's file
C1_RootRulesEverywhere ==
    \A dir \in DOMAIN realizedRules :
        (/\ dir # Dot
         /\ ~ruleFiles[dir].exists
         /\ ruleFiles[Dot].ok)
        => ContainsAll(realizedRules[dir], RulesOf(Dot))

\* C2: the effective rules of every resolved directory contain the rules of
\* every proper ancestor directory that holds a rule-definition file
C2_AncestorRulesIncluded ==
    \A dir \in DOMAIN realizedRules :
        \A above \in AncestorDirs(dir) :
            ruleFiles[above].ok
            => ContainsAll(realizedRules[dir], RulesOf(above))

\* C3: the effective rules of every resolved directory that holds a
\* rule-definition file contain the rules of that file in the declared order
C3_LocalRulesKept ==
    \A dir \in DOMAIN realizedRules :
        ruleFiles[dir].ok
        => OccursInOrder(realizedRules[dir], RulesOf(dir), 1)

\* C3 witness: a directory with rules of its own is resolved to a sequence
\* that also holds inherited rules
C3_Witness ==
    \E dir \in DOMAIN realizedRules :
        /\ ruleFiles[dir].ok
        /\ Len(RulesOf(dir)) > 0
        /\ Len(realizedRules[dir]) > Len(RulesOf(dir))

\* C4: within a scan discoverRules and localRules run at most once for each
\* directory and every call of getRules for a directory returns the sequence
\* stored for it
C4_ResolvedOnce ==
    \A dir \in Dirs :
        /\ discoverCalls[dir] <= 1
        /\ localCalls[dir] <= 1
        /\ Cardinality(returned[dir]) <= 1
        /\ returned[dir] # {}
           => (dir \in DOMAIN realizedRules
               /\ returned[dir] = { realizedRules[dir] })

\* C4 witness: a second file of a directory has been evaluated, with rules
\* in effect, after another directory was resolved
C4_Witness ==
    /\ lastEval.file = <<"d","/","x",".","m","d">>
    /\ <<"d","/","c",".","g","o">> \in passed
    /\ Dot \in DOMAIN realizedRules
    /\ lastEval.rules # << >>
    /\ discoverCalls[<<"d">>] = 1

\* the last error main printed
LastReport == report[Len(report)]

\* the include filter of the rule lets the file through: it is unset or it
\* matches the file path
IncludePasses(r, file) ==
    \/ r.Include = Empty
    \/ globAnyMatch(r.Include, file) = [matches |-> TRUE, err |-> FALSE]

\* the exclude filter of the rule lets the file through: it is unset or it
\* does not match the file path
ExcludePasses(r, file) ==
    \/ r.Exclude = Empty
    \/ globAnyMatch(r.Exclude, file) = [matches |-> FALSE, err |-> FALSE]

\* the rule is not skipped by its filters for the file and its check fails
\* on the contents
FailsOn(r, file, contents) ==
    /\ IncludePasses(r, file)
    /\ ExcludePasses(r, file)
    /\ Apply(r, contents) \notin {"nil", "panic"}

\* C5: a reported violation is that of the first rule of the effective
\* sequence that is not skipped by its filters and whose check fails; the
\* rule loop ran for the rules up to that one, in order, and for none after
C5_FirstViolationReported ==
    (/\ status = "failed"
     /\ report # << >>
     /\ LastReport.kind = "violation")
    => LET log == lastEval.log
           rules == lastEval.rules
           k == log[Len(log)].index
       IN  /\ LastReport.file = lastEval.file
           /\ LastReport.rule = rules[k]
           /\ FailsOn(rules[k], lastEval.file, lastEval.contents)
           /\ \A i \in 1..(k - 1) :
                  ~FailsOn(rules[i], lastEval.file, lastEval.contents)
           /\ Len(log) = k
           /\ \A i \in 1..Len(log) : log[i].index = i

\* C5 witness: the violation of the second or a later rule is reported after
\* an earlier rule passed, and a later rule of the sequence fails as well
C5_Witness ==
    /\ status = "failed"
    /\ report # << >>
    /\ LastReport.kind = "violation"
    /\ \E i \in 1..Len(lastEval.log) :
          /\ lastEval.log[i].step = "pass"
          /\ i < Len(lastEval.log)
    /\ \E j \in (Len(lastEval.log) + 1)..Len(lastEval.rules) :
          FailsOn(lastEval.rules[j], lastEval.file, lastEval.contents)

\* the scan has ended, or it has reported nothing: a reported violation is
\* the only report and leaves the failed state, and the success state is
\* reached with no report
StoppedOrClean ==
    /\ \A i \in 1..Len(report) :
          report[i].kind = "violation"
          => (status = "failed" /\ Len(report) = 1)
    /\ status = "ok" => report = << >>
    /\ status = "ok" =>
          (lastEval.log = << >>
           \/ lastEval.log[Len(lastEval.log)].step \in {"skip", "pass"})

\* C6: once a file yields a violation the scan has stopped in the failed
\* state with exactly one report, no step follows the end of the scan, and
\* the success state is reached only when no visited file failed
C6_ScanStopsAtViolation ==
    /\ []StoppedOrClean
    /\ [][status = "walking"]_vars

\* C6 witness: a violation is reported after an earlier file passed and
\* before the walk came to the end of the tree
C6_Witness ==
    /\ status = "failed"
    /\ report # << >>
    /\ LastReport.kind = "violation"
    /\ passed # {}
    /\ \E file \in OrdinaryFiles : ~WalkSkips[file] /\ WalkOrder[<< cursor, file >>]

C8_ApplyPriority ==
    \A i \in 1..Len(lastEval.log) :
        LET ev == lastEval.log[i]
            r == lastEval.rules[ev.index]
            c == lastEval.contents
            violated == ev.step = "violation"
        IN  ev.applied =>
            /\ r.Contains # Empty =>
                  /\ violated <=> StrContains(c, r.Contains)
                  /\ ev.err \in {"contains", "nil"}
                  /\ ev.err = Apply([r EXCEPT !.NotContains = Empty,
                                              !.Regex = Empty], c)
            /\ (r.Contains = Empty /\ r.NotContains # Empty) =>
                  /\ violated <=> ~StrContains(c, r.NotContains)
                  /\ ev.err \in {"not contains", "nil"}
            /\ (r.Contains = Empty /\ r.NotContains = Empty
                /\ r.Regex # Empty /\ ~BadRegex(r.Regex)) =>
                  /\ violated <=> RegexMatch(r.Regex, c)
                  /\ ev.err \in {"regexp match", "nil"}

\* C8 witness: a rule with contains and regex populated passes on contents
\* that its regex matches and that do not hold its literal
C8_Witness ==
    \E i \in 1..Len(lastEval.log) :
        LET r == lastEval.rules[i]
        IN  /\ lastEval.log[i].step = "pass"
            /\ r.Contains # Empty
            /\ r.Regex # Empty
            /\ RegexMatch(r.Regex, lastEval.contents)

\* no check field of the rule is populated
Unset(r) == r.Contains = Empty /\ r.NotContains = Empty /\ r.Regex = Empty

\* C9: a rule with no check field populated is reported as the violation
\* "no rule set" for the file it is reached for and ends the scan; it yields
\* nothing where its filters skip it, and its rule file loads without error
C9_UnsetRuleFailsWhenReached ==
    /\ \A i \in 1..Len(lastEval.log) :
          LET ev == lastEval.log[i]
              r == lastEval.rules[ev.index]
          IN  Unset(r) =>
              /\ ev.applied =>
                    /\ ev.step = "violation"
                    /\ ev.err = "no rule set"
                    /\ status = "failed"
                    /\ report = << Failure("violation", lastEval.file, r,
                                           "no rule set") >>
              /\ ~ev.applied => ev.step \in {"skip", "error"}
    /\ \A dir \in Dirs :
          (localResult[dir].ran /\ ruleFiles[dir].ok)
          => (~localResult[dir].err /\ localResult[dir].rules = RulesOf(dir))

\* C9 witness: the violation "no rule set" is reported for a file after the
\* rule file that declares the unset rule was loaded and a file passed for
\* which the rule was skipped
C9_Witness ==
    /\ status = "failed"
    /\ report # << >>
    /\ LastReport.kind = "violation"
    /\ LastReport.err = "no rule set"
    /\ Unset(LastReport.rule)
    /\ <<".","a">> \in passed

\* C10: the loader run for a directory without a rule-definition file returns
\* no rules and no error, the directory's result is stored so that the loader
\* runs once for it, and no file fails for the missing rule file
C10_MissingRuleFile ==
    /\ \A dir \in Dirs :
          (localResult[dir].ran /\ ~ruleFiles[dir].exists)
          => /\ localResult[dir].rules = << >>
             /\ ~localResult[dir].err
             /\ dir \in DOMAIN realizedRules
             /\ dir \notin DOMAIN packageRules
             /\ localCalls[dir] = 1
    /\ \A i \in 1..Len(report) :
          report[i].err = "rule file"
          => ruleFiles[FileDir[report[i].file]].exists

\* C10 witness: two files of a directory without a rule-definition file have
\* been evaluated and the loader ran once for the directory
C10_Witness ==
    /\ ~ruleFiles[<<"d">>].exists
    /\ <<"d","/","c",".","g","o">> \in passed
    /\ lastEval.file = <<"d","/","x",".","m","d">>
    /\ localResult[<<"d">>].ran
    /\ localCalls[<<"d">>] = 1

\* main has printed the error of a rule-definition file
RuleFileFailed == \E i \in 1..Len(report) : report[i].err = "rule file"

\* the rule-definition file of the directory exists and cannot be read or
\* parsed
Unloadable(dir) == ruleFiles[dir].exists /\ ~ruleFiles[dir].ok

\* a loader that failed has ended the scan with its error as the last report,
\* at the file it was run for, and has left no entry for the directory in
\* packageRules or realizedRules
LoadErrorStops ==
    /\ \A dir \in Dirs :
          (localResult[dir].ran /\ Unloadable(dir))
          => /\ localResult[dir].err
             /\ status = "failed"
             /\ report # << >>
             /\ LastReport = Failure("error", cursor, NoRule, "rule file")
             /\ FileDir[cursor] = dir
             /\ dir \notin DOMAIN packageRules
             /\ dir \notin DOMAIN realizedRules
             /\ returned[dir] = {}
             /\ cursor \notin passed
             /\ lastEval.file # cursor
    /\ \A i \in 1..Len(report) :
          report[i].err = "rule file"
          => /\ i = Len(report)
             /\ localResult[FileDir[report[i].file]].ran
             /\ Unloadable(FileDir[report[i].file])

\* C11: when the rule-definition file of a directory cannot be read or parsed
\* the scan ends with that error at the file the directory was resolved for,
\* no step follows, and neither packageRules nor realizedRules holds an entry
\* for the directory
C11_LoadErrorAborts ==
    /\ []LoadErrorStops
    /\ [][~RuleFileFailed]_vars

\* C11 witness: the scan ended with the error of a rule-definition file after
\* another directory was resolved and a file passed, with files left to visit
C11_Witness ==
    /\ status = "failed"
    /\ RuleFileFailed
    /\ passed # {}
    /\ DOMAIN realizedRules # {}
    /\ \E file \in OrdinaryFiles : ~WalkSkips[file] /\ WalkOrder[<< cursor, file >>]

\* the pattern, trimmed, is malformed
PatternMalformed(pattern) == BadPattern(TrimSpace(pattern))

\* the pattern, trimmed, is well formed and matches the file's full path or
\* its base name
PatternMatches(pattern, file) ==
    /\ ~PatternMalformed(pattern)
    /\ \/ GlobMatch(TrimSpace(pattern), file)
       \/ GlobMatch(TrimSpace(pattern), Base(file))

\* C12 as stated: globAnyMatch is true exactly when at least one of the
\* comma-separated, trimmed patterns of the filter matches the full path or
\* the base name of the file
C12_TrueIffSomePatternMatches ==
    globCall.returned
    => LET parts == Split(globCall.filter, ",")
       IN  globCall.result.matches
           <=> \E k \in 1..Len(parts) : PatternMatches(parts[k], globCall.file)

\* C12 amended: globAnyMatch is true exactly when a pattern of the filter
\* matches the full path or the base name of the file and no pattern before
\* it is malformed; it returns an error exactly when a pattern is malformed
\* and no pattern before it matches; otherwise it is false without error
C12_TrueIffMatchBeforeMalformed ==
    globCall.returned
    => LET parts == Split(globCall.filter, ",")
           file == globCall.file
       IN  /\ globCall.result.matches
              <=> \E k \in 1..Len(parts) :
                     /\ PatternMatches(parts[k], file)
                     /\ \A j \in 1..(k - 1) : ~PatternMalformed(parts[j])
           /\ globCall.result.err
              <=> \E k \in 1..Len(parts) :
                     /\ PatternMalformed(parts[k])
                     /\ \A j \in 1..(k - 1) : ~PatternMatches(parts[j], file)
           /\ ~(globCall.result.matches /\ globCall.result.err)

\* C12 witness: globAnyMatch returned true for a filter whose first pattern
\* does not match and whose second pattern, written with blanks around it,
\* matches the base name and not the full path
C12_Witness ==
    /\ globCall.returned
    /\ globCall.result.matches
    /\ LET parts == Split(globCall.filter, ",")
       IN  /\ Len(parts) = 2
           /\ ~PatternMatches(parts[1], globCall.file)
           /\ parts[2] # TrimSpace(parts[2])
           /\ ~GlobMatch(TrimSpace(parts[2]), globCall.file)

\* the filter is set and one of its patterns is malformed
HasMalformed(filter) ==
    /\ filter # Empty
    /\ \E k \in 1..Len(Split(filter, ",")) :
          PatternMalformed(Split(filter, ",")[k])

\* the filter is set and one of its patterns is malformed with no pattern
\* before it that matches the file
ReachesMalformed(filter, file) ==
    /\ filter # Empty
    /\ LET parts == Split(filter, ",")
       IN  \E k \in 1..Len(parts) :
              /\ PatternMalformed(parts[k])
              /\ \A j \in 1..(k - 1) : ~PatternMatches(parts[j], file)

\* the rule loop comes to a malformed pattern of the rule's filters: in the
\* include filter, or in the exclude filter after the include filter let the
\* file through
FilterAborts(r, file) ==
    \/ ReachesMalformed(r.Include, file)
    \/ /\ IncludePasses(r, file)
       /\ ReachesMalformed(r.Exclude, file)

\* the iteration of the rule loop ended the scan with the error of a filter
AbortedAt(i) ==
    /\ lastEval.log[i].step = "error"
    /\ ~lastEval.log[i].applied
    /\ i = Len(lastEval.log)
    /\ status = "failed"
    /\ report # << >>
    /\ LastReport = Failure("error", lastEval.file,
                            lastEval.rules[lastEval.log[i].index], "bad pattern")

\* C13 as stated: whenever a rule the loop reached for a file has an include
\* or exclude filter with a malformed pattern anywhere in its list, the scan
\* has ended with an error at that rule
C13_MalformedFilterAborts ==
    \A i \in 1..Len(lastEval.log) :
        LET r == lastEval.rules[lastEval.log[i].index]
        IN  (HasMalformed(r.Include) \/ HasMalformed(r.Exclude))
            => AbortedAt(i)

\* C13 amended: the scan ends with an error at a rule exactly when the
\* evaluation of the rule's filters comes to a malformed pattern, that is
\* when no earlier pattern of the same list matched the file and, for the
\* exclude filter, the include filter let the file through; the rule is then
\* neither applied nor skipped
C13_ReachedMalformedPatternAborts ==
    \A i \in 1..Len(lastEval.log) :
        LET r == lastEval.rules[lastEval.log[i].index]
        IN  /\ lastEval.log[i].step = "error" <=> FilterAborts(r, lastEval.file)
            /\ FilterAborts(r, lastEval.file) => AbortedAt(i)

\* C13 witness: the scan ended at a rule with a malformed exclude pattern,
\* after a rule whose include filter holds a malformed pattern behind a
\* matching one was applied to the same file
C13_Witness ==
    /\ lastEval.log # << >>
    /\ AbortedAt(Len(lastEval.log))
    /\ HasMalformed(lastEval.rules[Len(lastEval.log)].Exclude)
    /\ \E i \in 1..(Len(lastEval.log) - 1) :
          /\ HasMalformed(lastEval.rules[i].Include)
          /\ lastEval.log[i].applied

\* no directory of the tree holds a rule-definition file
NoRuleFiles == \A dir \in Dirs : ~ruleFiles[dir].exists

\* C14: in a tree without rule-definition files every directory resolves to
\* the empty rule sequence, no rule is evaluated and no violation is
\* reported for any file contents, and the scan does not fail unless a file
\* cannot be read or a flag holds a malformed pattern
C14_NoRuleFilesNoViolation ==
    NoRuleFiles
    => /\ \A dir \in DOMAIN realizedRules : realizedRules[dir] = << >>
       /\ \A dir \in Dirs : returned[dir] \subseteq { << >> }
       /\ packageRules = EmptyMap
       /\ lastEval.rules = << >>
       /\ lastEval.log = << >>
       /\ status \in {"walking", "ok", "failed"}
       /\ \A i \in 1..Len(report) :
             /\ report[i].kind = "error"
             /\ report[i].rule = NoRule
             /\ \/ report[i].err = "read"
                \/ /\ report[i].err = "bad pattern"
                   /\ HasMalformed(flags.include) \/ HasMalformed(flags.exclude)
       /\ status = "failed" => report # << >>
       /\ status = "ok" => report = << >>

\* C14 witness: the scan of a tree without rule-definition files has ended in
\* the success state after files of three directories passed, one of them
\* with contents that hold "T"
C14_Witness ==
    /\ NoRuleFiles
    /\ status = "ok"
    /\ Cardinality(DOMAIN realizedRules) >= 3
    /\ Cardinality(passed) >= 3
    /\ StrContains(lastEval.contents, <<"T">>)

\* the argument is the token "--" when trimmed
IsTrailerToken(arg) == TrimSpace(arg) = <<"-","-">>

\* C15: for an argument list that holds a "--" token, compared after trimming,
\* with at least one argument behind the first such token, ArgsTrailer
\* returns the arguments behind that token and no error; for a list with no
\* token, or with nothing behind the first one, it returns ErrFlagsNoTrailer
\* and no arguments
C15_TrailerAfterFirstToken ==
    argsCall.returned
    => LET args == argsCall.args
           tokens == { k \in 1..Len(args) : IsTrailerToken(args[k]) }
           first == CHOOSE k \in tokens : \A j \in tokens : k <= j
       IN  IF tokens # {} /\ first < Len(args)
           THEN /\ argsCall.err = "nil"
                /\ argsCall.trailer = SubSeq(args, first + 1, Len(args))
           ELSE /\ argsCall.err = ErrFlagsNoTrailer
                /\ argsCall.trailer = << >>

\* the keys of pkg that are a string prefix of dir and are not dir
PrefixKeys(pkg, dir) == { key \in DOMAIN pkg : HasPrefix(dir, key) /\ key # dir }

\* the rule sequences pkg holds for the keys, one after the other
RECURSIVE Flatten(_, _)
Flatten(pkg, keys) ==
    IF keys = << >> THEN << >>
    ELSE pkg[Head(keys)] \o Flatten(pkg, Tail(keys))

\* the rules discoverRules puts in front for the root: those of the key "."
\* when pkg holds it and dir is not the root
RootPart(pkg, dir) == IF Dot \in DOMAIN pkg /\ dir # Dot THEN pkg[Dot] ELSE << >>

\* the rules of dir's own rule-definition file as pkg holds them
LocalPart(pkg, dir) == IF dir \in DOMAIN pkg THEN pkg[dir] ELSE << >>

\* the step resolves dir to the root's rules, the sequences of the prefix keys
\* of dir in some order and dir's local rules, and to nothing else
ResolvesFromPrefixKeys(dir) ==
    \E order \in Orders(PrefixKeys(packageRules', dir)) :
        realizedRules'[dir] =
            RootPart(packageRules', dir)
            \o Flatten(packageRules', order)
            \o LocalPart(packageRules', dir)

\* C16: a directory is resolved to its local rules preceded by the rule
\* sequences of exactly the keys of packageRules that are a string prefix of
\* its path and differ from it, and by the rules of the key "." when the key
\* is present and the directory is not the root
C16_InheritsFromPrefixKeys ==
    [][\A dir \in (DOMAIN realizedRules') \ (DOMAIN realizedRules) :
           ResolvesFromPrefixKeys(dir)]_vars

\* C16 witness: the directory "de" is resolved to a sequence that holds the
\* rules of its sibling "d", whose name is a string prefix of "de"
C16_Witness ==
    /\ <<"d","e">> \in DOMAIN realizedRules
    /\ <<"d">> \in DOMAIN packageRules
    /\ packageRules[<<"d">>] # << >>
    /\ ContainsAll(realizedRules[<<"d","e">>], packageRules[<<"d">>])

\* the step resolves dir to a sequence that ends with dir's local rules, has
\* only rules of other rule-definition files before them, and begins with the
\* rules of the key "." when they are included
LocalTailRootHead(dir) ==
    LET seq == realizedRules'[dir]
        local == LocalPart(packageRules', dir)
        root == RootPart(packageRules', dir)
        inherited == Len(seq) - Len(local)
    IN  /\ inherited >= Len(root)
        /\ SubSeq(seq, inherited + 1, Len(seq)) = local
        /\ \A i \in 1..inherited : seq[i].File # Join(dir, rulesFile)
        /\ SubSeq(seq, 1, Len(root)) = root

\* C17: in the sequence a directory is resolved to, the directory's local
\* rules are the tail and every inherited rule stands before them; the rules
\* of the root, when included for a directory that is not the root, are the
\* head
C17_LocalLastRootFirst ==
    [][\A dir \in (DOMAIN realizedRules') \ (DOMAIN realizedRules) :
           LocalTailRootHead(dir)]_vars

\* C17 witness: a directory with local rules is resolved to the root's rules
\* followed by its own
C17_Witness ==
    \E dir \in (DOMAIN realizedRules) \ { Dot } :
        /\ Dot \in DOMAIN packageRules
        /\ dir \in DOMAIN packageRules
        /\ packageRules[Dot] # << >>
        /\ packageRules[dir] # << >>
        /\ realizedRules[dir] = packageRules[Dot] \o packageRules[dir]

\* the step leaves every key of the map in it, with the sequence it held
KeepsEntries(before, after) ==
    \A key \in DOMAIN before :
        /\ key \in DOMAIN after
        /\ after[key] = before[key]

\* C18: packageRules and realizedRules are empty when the scan starts, and no
\* step removes a key from either or changes the sequence stored under a key
C18_IndicesOnlyGrow ==
    /\ packageRules = EmptyMap
    /\ realizedRules = EmptyMap
    /\ [][/\ KeepsEntries(packageRules, packageRules')
          /\ KeepsEntries(realizedRules, realizedRules')]_vars

\* C18 witness: a directory is resolved to a sequence that extends the rules
\* stored under a prefix key, and the key still holds the rules of its
\* rule-definition file
C18_Witness ==
    \E dir \in DOMAIN realizedRules :
        \E key \in PrefixKeys(packageRules, dir) :
            /\ key \in RuleDirs
            /\ packageRules[key] # << >>
            /\ packageRules[key] = RulesOf(key)
            /\ dir \in DOMAIN packageRules
            /\ packageRules[dir] # << >>
            /\ Len(realizedRules[dir]) > Len(packageRules[key])
            /\ Cardinality(DOMAIN realizedRules) >= 3

\* what the rule loop leaves of the evaluation of a file: it passed, or it
\* ended the scan with the kind of the failure, the rule and the error
Outcome(rules, log) ==
    IF log = << >> \/ log[Len(log)].step \in {"skip", "pass"}
    THEN [kind |-> "pass", rule |-> NoRule, err |-> "nil"]
    ELSE [kind |-> log[Len(log)].step,
          rule |-> rules[log[Len(log)].index],
          err |-> log[Len(log)].err]

\* the step evaluates a file, and the evaluation has the same outcome for
\* every sequence getRules can return for the file's directory, whatever the
\* order in which the range over packageRules yields the keys
SameOutcomeForEveryOrder ==
    lastEval' # lastEval
    => \A out \in getRules(realizedRules, packageRules, FileDir[lastEval'.file]) :
           ~out.err
           => Outcome(out.rules,
                      RuleLoop(out.rules, 1, lastEval'.file, lastEval'.contents))
              = Outcome(lastEval'.rules, lastEval'.log)

\* C19: the outcome of the scan of a tree, success or the file and the rule
\* reported, is the same for every order in which the range over
\* packageRules can yield the keys that are prefixes of a directory
C19_OutcomeIndependentOfKeyOrder ==
    [][SameOutcomeForEveryOrder]_vars

\* C20: the sequence a directory is resolved to holds no rule twice: every
\* rule of every rule-definition file that contributes to it, the root's
\* included, occurs in it once, also for a directory whose name begins with
\* "."
C20_NoRuleFileTwice ==
    \A dir \in DOMAIN realizedRules :
        \A i, j \in 1..Len(realizedRules[dir]) :
            realizedRules[dir][i] = realizedRules[dir][j] => i = j

\* the class counter the status code belongs to: 5xx from 500 on, 4xx for
\* 400 to 499, 3xx for 300 to 399, 2xx for every other code
ClassCounter(statusCode) ==
    IF statusCode >= 500 THEN "http_requests5xx"
    ELSE IF statusCode \in 400..499 THEN "http_requests4xx"
    ELSE IF statusCode \in 300..399 THEN "http_requests3xx"
    ELSE "http_requests2xx"

\* the class counters
ClassCounters ==
    { "http_requests2xx", "http_requests3xx", "http_requests4xx",
      "http_requests5xx" }

\* the calls of httpResponseListener that are at one of the positions
CallsAt(positions) == { c \in 1..Len(calls) : calls[c].pc \in positions }

\* http_requests counts the calls of the listener that have passed their
\* first increment, every class counter the calls for a status code of its
\* class that have passed their second one, and while no call stands between
\* its two increments http_requests is the sum of the class counters
CountersMatchEvents ==
    /\ hzVars["http_requests"]
          = Cardinality(CallsAt({"class", "unlock", "done"}))
    /\ \A key \in ClassCounters :
          hzVars[key]
             = Cardinality({ c \in CallsAt({"unlock", "done"}) :
                                ClassCounter(calls[c].statusCode) = key })
    /\ CallsAt({"class"}) = {}
       => hzVars["http_requests"]
             = hzVars["http_requests2xx"] + hzVars["http_requests3xx"]
               + hzVars["http_requests4xx"] + hzVars["http_requests5xx"]

\* no step decreases a counter
CountersNeverDecrease ==
    \A key \in Counters : hzVars'[key] >= hzVars[key]

\* C21: after any interleaving of the calls of httpResponseListener,
\* http_requests is the sum of the four class counters; every call adds 1 to
\* http_requests and 1 to the class counter of its status code and to no
\* other; and no counter ever decreases
C21_RequestsIsSumOfClasses ==
    /\ []CountersMatchEvents
    /\ [][CountersNeverDecrease]_vars

\* C21 witness: two events with status codes of different classes, one of
\* them 500, have been counted while a call of ServeHTTP was under way, and
\* the lock is free
C21_Witness ==
    /\ varsLock = "free"
    /\ Len(calls) >= 2
    /\ CallsAt({"done"}) = 1..Len(calls)
    /\ hzVars["http_requests"] = 2
    /\ hzVars["http_requests5xx"] = 1
    /\ hzVars["http_requests3xx"] = 1
    /\ \E c \in 1..Len(calls) : calls[c].statusCode = 500
    /\ \E r \in Requests : serve[r] = "lock"

\* the calls of httpResponseListener made for the event
CallsFor(event) == { c \in 1..Len(calls) : calls[c].event = event }

\* C22: whatever the number and the interleaving of the calls of ServeHTTP,
\* hz.vars[VarzStarted] is assigned once, before any call of ensureListeners
\* returns; Listen is called at most once for each of the three flags; and
\* every logged event reaches httpResponseListener once, so that
\* http_requests never exceeds the number of events
C22_ListenersRegisteredOnce ==
    /\ startedSets <= 1
    /\ startedSets = 1 <=> "startedUTC" \in DOMAIN hzVars
    /\ \A r \in Requests : serve[r] = "served" => startedSets = 1
    /\ \A flag \in Flags : listens[flag] <= 1
    /\ \A flag \in Flags : listens[flag] = 1 => (appLog /\ startedSets = 1)
    /\ \A event \in Events : Cardinality(CallsFor(event)) = 1
    /\ hzVars["http_requests"] <= Cardinality(Events)

\* C22 witness: every call of ServeHTTP has returned from ensureListeners,
\* the listeners are registered, and every logged event has been counted
C22_Witness ==
    /\ \A r \in Requests : serve[r] = "served"
    /\ startedSets = 1
    /\ \A flag \in Flags : listens[flag] = 1
    /\ Cardinality(Events) = MaxEvents
    /\ hzVars["http_requests"] = Cardinality(Events)
    /\ varsLock = "free"

====
